---- MODULE Spec2Model ----
(***************************************************************************)
(* The N-body core of src/main.rs: Charge::new, Charge::get_acc,           *)
(* Charge::update, get_charge, get_mass, gen_random_vector, and the part   *)
(* of main's frame loop that owns charge_vec (key-press inserts and the    *)
(* clone-then-update loop).                                                *)
(*                                                                         *)
(* Numbers.  The f32 lengths (pos, vel, acc) are fixed-point integers with *)
(* Scale quanta per world unit.  The physical constants are kept as their  *)
(* decimal mantissas: k = 9 (x 10^9), q = 16 (x 10^-20), em = 91 and       *)
(* pm = 16 (x 10^-28), so that k*q*q/m carries the factor                  *)
(* 10^(9-20-20+28) = 10^-3 = 1/Unit.  The one rounding operation of the    *)
(* force law, the division, rounds toward zero to the quantum.  f32        *)
(* overflow, underflow, infinities and NaN are outside this model.         *)
(***************************************************************************)
EXTENDS Integers, Sequences, FiniteSets, TLC

VARIABLES charge_vec, buffer, pc, at, frames

vars == <<charge_vec, buffer, pc, at, frames>>

---------------------------------------------------------------------------
(* Bounds of the model *)

Res == 4
MaxCharges == 3
MaxFrames == 3

---------------------------------------------------------------------------
(* Program constants *)

Unit == 1000
k == 9
q == 16
em == 91
pm == 16
TrailLen == 50

Scale == Unit * Res

Particle == {"Electron", "Proton", "Neutron"}

None == <<>>
Some(v) == <<v>>

vec3(x, y, z) == <<x, y, z>>

VAdd(a, b) == <<a[1] + b[1], a[2] + b[2], a[3] + b[3]>>

Abs(x) == IF x < 0 THEN -x ELSE x

TruncDiv(n, d) == IF n >= 0 THEN n \div d ELSE -((-n) \div d)

\* n / (d * m) as an acceleration in quanta, for n a product k*q*q in
\* mantissa units, d a distance in quanta and m a mass mantissa.  Dividing by
\* m and then by d truncates to the same integer as dividing by d * m, and
\* keeps the intermediate values small.
Quot(n, d, m) == TruncDiv(TruncDiv(n * Res * Scale, m), d)

---------------------------------------------------------------------------
(* Free functions *)

\* get_charge with the Neutron arm returning q
get_charge_neutron_q(particle) ==
    CASE particle = "Electron" -> -q
      [] particle = "Proton" -> q
      [] particle = "Neutron" -> q

get_charge(particle) ==
    CASE particle = "Electron" -> -q
      [] particle = "Proton" -> q
      [] particle = "Neutron" -> 0

get_mass(particle) ==
    CASE particle = "Electron" -> em
      [] OTHER -> pm

\* One draw of the closure get_rand: num is what gen_range(start, end) returned.
get_rand(start, num) == IF num = 0 THEN start ELSE num

\* raw: the three values gen_range returned, in call order.
gen_random_vector(start, end, raw) ==
    vec3(get_rand(start, raw[1]), get_rand(start, raw[2]), get_rand(start, raw[3]))

---------------------------------------------------------------------------
(* impl Charge *)

\* The array expression [v; len]: len copies of v.  No code writes an element
\* of a trail, so every trail is of this form and is kept as (v, len).
repeat(v, len) == [fill |-> v, len |-> len]

\* Charge::new with vel initialised from pos
new_moving(particle, pos, raw) ==
    LET p == IF pos # None THEN pos[1]
             ELSE gen_random_vector(-10 * Scale, 10 * Scale, raw)
    IN  [particle |-> particle,
         mass |-> get_mass(particle),
         pos |-> p,
         vel |-> p,
         acc |-> vec3(0, 0, 0),
         trail |-> repeat(p, TrailLen)]

new(particle, pos, raw) ==
    LET p == IF pos # None THEN pos[1]
             ELSE gen_random_vector(-10 * Scale, 10 * Scale, raw)
    IN  [particle |-> particle,
         mass |-> get_mass(particle),
         pos |-> p,
         vel |-> vec3(0, 0, 0),
         acc |-> vec3(0, 0, 0),
         trail |-> repeat(p, TrailLen)]

\* Equality that leaves the trail out
ChargeEq_no_trail(a, b) ==
    /\ a.particle = b.particle
    /\ a.mass = b.mass
    /\ a.pos = b.pos
    /\ a.vel = b.vel
    /\ a.acc = b.acc

\* derive(PartialEq) on Charge: field-wise equality over all six fields.
ChargeEq(a, b) ==
    /\ a.particle = b.particle
    /\ a.mass = b.mass
    /\ a.pos = b.pos
    /\ a.vel = b.vel
    /\ a.acc = b.acc
    /\ a.trail = b.trail

\* A filter predicate that also drops uncharged particles
Distinct_charged(e, self) ==
    ~ChargeEq(e, self) /\ get_charge(e.particle) # 0

\* The predicate of .filter(|e| *e != self)
Distinct(e, self) == ~ChargeEq(e, self)

filter(self, vec) == SelectSeq(vec, LAMBDA e : Distinct(e, self))

\* unit_acc dividing by the signed distance y - x
unit_acc_signed(self, e, x, y) ==
    IF Abs(y - x) # 0
    THEN Quot(k * get_charge(self.particle) * get_charge(e.particle) *
                  (IF y - x < 0 THEN -1 ELSE 1),
              Abs(y - x), self.mass)
    ELSE 0

unit_acc(self, e, x, y) ==
    IF Abs(y - x) # 0
    THEN Quot(k * get_charge(self.particle) * get_charge(e.particle),
              Abs(y - x), self.mass)
    ELSE 0

\* The closure of .map(...)
pair_acc(self, e) ==
    vec3(unit_acc(self, e, self.pos[1], e.pos[1]),
         unit_acc(self, e, self.pos[2], e.pos[2]),
         unit_acc(self, e, self.pos[3], e.pos[3]))

map(self, seq) == [i \in 1..Len(seq) |-> pair_acc(self, seq[i])]

RECURSIVE fold(_, _)
fold(a, seq) == IF seq = <<>> THEN a ELSE fold(VAdd(a, Head(seq)), Tail(seq))

\* A fold from the zero vector: a value even for the empty sequence
reduce_or_zero(seq) == Some(fold(vec3(0, 0, 0), seq))

\* Iterator::reduce: None on an empty sequence
reduce(seq) == IF seq = <<>> THEN None ELSE Some(fold(Head(seq), Tail(seq)))

\* get_acc up to, not including, .unwrap(): Some(acceleration) or None
get_acc(self, vec) == reduce(map(self, filter(self, vec)))

\* update with pos += vel ahead of vel += acc
update_pos_first(self, a) ==
    LET s1 == [self EXCEPT !.acc = a]
        s2 == [s1 EXCEPT !.pos = VAdd(s1.pos, s1.vel)]
    IN  [s2 EXCEPT !.vel = VAdd(s2.vel, s2.acc)]

\* update after get_acc returned a: the three assignments in order
update(self, a) ==
    LET s1 == [self EXCEPT !.acc = a]
        s2 == [s1 EXCEPT !.vel = VAdd(s1.vel, s1.acc)]
    IN  [s2 EXCEPT !.pos = VAdd(s2.pos, s2.vel)]

---------------------------------------------------------------------------
(* main: the clone-then-update loop *)

\* update reading the vector being updated
Snapshot_live(live, buf) == live

\* The vector update is given to read: the clone, never the live vector
Snapshot(live, buf) == buf

\* for charge in &mut charge_vec { charge.update(&buffer) } from the ord[i]-th
\* position on; a None from get_acc is the panic of unwrap()
RECURSIVE UpdateLoop(_, _, _, _)
UpdateLoop(vec, buf, ord, i) ==
    IF i > Len(ord)
    THEN [vec |-> vec, panicked |-> FALSE, at |-> 0]
    ELSE LET j == ord[i]
             a == get_acc(vec[j], Snapshot(vec, buf))
         IN  IF a = None
             THEN [vec |-> vec, panicked |-> TRUE, at |-> i]
             ELSE UpdateLoop([vec EXCEPT ![j] = update(vec[j], a[1])], buf, ord, i + 1)

Identity(n) == [i \in 1..n |-> i]

\* The loop as the code runs it: in index order
RunLoop(vec) == UpdateLoop(vec, vec, Identity(Len(vec)), 1)

---------------------------------------------------------------------------
(* Inputs *)

W(x, y, z) == vec3(x * Scale, y * Scale, z * Scale)

InitPos == {W(200, 0, 0), W(100, 0, 0), W(100, 50, 0)}
InsPos == {W(100, 0, 0)}
\* Triples gen_range(-10., 10.) can return, 0 among the values
RandVec == {vec3(5 * Scale, 0, -3 * Scale)}
MainRandVec == {vec3(0, 0, 0), vec3(5 * Scale, 0, 0), vec3(5 * Scale, 0, -3 * Scale)}

InitCharges == {new(p, Some(v), <<0, 0, 0>>) : p \in Particle, v \in InitPos}

\* The collections a run starts from: one particle, or any two
InitVecs == {<<a>> : a \in InitCharges} \cup {<<a, b>> : a, b \in InitCharges}

---------------------------------------------------------------------------
(* The core as a library: any constructed collection, inserts and steps *)

Init ==
    /\ charge_vec \in InitVecs
    /\ buffer = <<>>
    /\ pc = "loop"
    /\ at = 0
    /\ frames = 0

\* charge_vec.append(&mut vec![Charge::new(particle, pos)])
insert(particle, pos, raw) ==
    /\ pc = "loop"
    /\ Len(charge_vec) < MaxCharges
    /\ charge_vec' = charge_vec \o <<new(particle, pos, raw)>>
    /\ UNCHANGED <<buffer, pc, at, frames>>

Insert ==
    \E particle \in Particle :
        \/ \E v \in InsPos : insert(particle, Some(v), <<0, 0, 0>>)
        \/ \E raw \in RandVec : insert(particle, None, raw)

\* let buffer = charge_vec.clone(); for charge in &mut charge_vec { ... }
Step ==
    /\ pc = "loop"
    /\ frames < MaxFrames
    /\ LET r == RunLoop(charge_vec)
       IN  /\ buffer' = charge_vec
           /\ charge_vec' = r.vec
           /\ pc' = IF r.panicked THEN "panicked" ELSE "loop"
           /\ at' = r.at
    /\ frames' = frames + 1

Next == Insert \/ Step

Spec == Init /\ [][Next]_vars

---------------------------------------------------------------------------
(* The update loop alone, over any three constructed particles *)

LoopInit ==
    /\ charge_vec \in {<<a, b, c>> : a \in InitCharges, b \in InitCharges, c \in InitCharges}
    /\ buffer = <<>>
    /\ pc = "loop"
    /\ at = 0
    /\ frames = 0

LoopSpec == LoopInit /\ [][Step]_vars

---------------------------------------------------------------------------
(* The program as shipped: main's loop *)

MainMaxCharges == 4

\* vec![Charge::new(Electron, Some(vec3(200., 0., 0.))),
\*      Charge::new(Proton, Some(vec3(100., 0., 0.)))]
initial_charge_vec ==
    <<new("Electron", Some(W(200, 0, 0)), <<0, 0, 0>>),
      new("Proton", Some(W(100, 0, 0)), <<0, 0, 0>>)>>

MainInit ==
    /\ charge_vec = initial_charge_vec
    /\ buffer = <<>>
    /\ pc = "loop"
    /\ at = 0
    /\ frames = 0

\* A key press that assigns the new particle instead of appending it
key_pressed_replace(vec, pressed, particle, raw) ==
    IF pressed THEN <<new(particle, None, raw)>> ELSE vec

\* if is_key_pressed(key) { charge_vec.append(&mut vec![Charge::new(particle, None)]) }
key_pressed(vec, pressed, particle, raw) ==
    IF pressed THEN vec \o <<new(particle, None, raw)>> ELSE vec

\* One iteration of loop { ... }: the three key checks in order, then the
\* clone-then-update loop.  key1..key3: is_key_pressed(Key1..Key3).
Frame(key1, key2, key3, raw1, raw2, raw3) ==
    /\ pc = "loop"
    /\ frames < MaxFrames
    /\ LET v1 == key_pressed(charge_vec, key1, "Electron", raw1)
           v2 == key_pressed(v1, key2, "Proton", raw2)
           v3 == key_pressed(v2, key3, "Neutron", raw3)
           r == RunLoop(v3)
       IN  /\ Len(v3) <= MainMaxCharges
           /\ buffer' = v3
           /\ charge_vec' = r.vec
           /\ pc' = IF r.panicked THEN "panicked" ELSE "loop"
           /\ at' = r.at
    /\ frames' = frames + 1

NoRaw == <<0, 0, 0>>

Frames ==
    \E key1, key2, key3 \in BOOLEAN :
        \E raw1 \in (IF key1 THEN MainRandVec ELSE {NoRaw}),
           raw2 \in (IF key2 THEN MainRandVec ELSE {NoRaw}),
           raw3 \in (IF key3 THEN MainRandVec ELSE {NoRaw}) :
            Frame(key1, key2, key3, raw1, raw2, raw3)

\* if is_key_pressed(Q) || is_key_pressed(Escape) { break; }
Quit ==
    /\ pc = "loop"
    /\ pc' = "exit"
    /\ UNCHANGED <<charge_vec, buffer, at, frames>>

MainNext == Frames \/ Quit

MainSpec == MainInit /\ [][MainNext]_vars

---------------------------------------------------------------------------
(* The shipped pair with inserts at chosen places *)

ProbeMaxCharges == 4

\* Where the shipped Proton rests after its first step
Displaced == VAdd(W(100, 0, 0), vec3(Quot(k * q * (-q), 100 * Scale, pm), 0, 0))

ProbePos == {W(155, 0, 0), Displaced}

ProbeInsert ==
    \E particle \in {"Electron", "Proton"}, v \in ProbePos :
        /\ Len(charge_vec) < ProbeMaxCharges
        /\ pc = "loop"
        /\ charge_vec' = charge_vec \o <<new(particle, Some(v), NoRaw)>>
        /\ UNCHANGED <<buffer, pc, at, frames>>

ProbeNext == ProbeInsert \/ Step

ProbeSpec == MainInit /\ [][ProbeNext]_vars

---------------------------------------------------------------------------
(* Properties *)

Zero == vec3(0, 0, 0)

\* Perms[n]: the orders in which n particles can be processed
Perms ==
    [n \in 1..MaxCharges |->
        {f \in [1..n -> 1..n] : \A i, j \in 1..n : f[i] = f[j] => i = j}]

\* The charges of the snapshot a completed step worked on, with their results
Stepped == pc = "loop" /\ frames > 0

\* C1: step() is compute-then-commit.  From every reachable collection, in
\* whatever order the loop processes the particles, each particle's new
\* acceleration is get_acc of its start-of-step value against the
\* start-of-step collection, and the whole outcome (vector, panic or not)
\* equals that of the index-order loop.
C1_ComputeThenCommit ==
    LET n == Len(charge_vec)
        code == RunLoop(charge_vec)
    IN  /\ \A ord \in Perms[n] :
               LET r == UpdateLoop(charge_vec, charge_vec, ord, 1)
               IN  r.vec = code.vec /\ r.panicked = code.panicked
        /\ ~code.panicked =>
               \A i \in 1..n :
                   code.vec[i].acc = get_acc(charge_vec[i], charge_vec)[1]

\* Three charged particles, pairwise apart on x, already moving, and the next
\* step accelerates all of them
C1_Witness ==
    /\ Stepped
    /\ Len(charge_vec) = 3
    /\ frames < MaxFrames
    /\ \A i \in 1..3 : get_charge(charge_vec[i].particle) # 0
    /\ \A i, j \in 1..3 : i # j => charge_vec[i].pos[1] # charge_vec[j].pos[1]
    /\ \E i \in 1..3 : charge_vec[i].vel # Zero
    /\ ~RunLoop(charge_vec).panicked
    /\ \A i \in 1..3 : RunLoop(charge_vec).vec[i].acc # Zero

\* C2: one insert lengthens the collection by exactly one, the new particle
\* is the last one and has zero velocity and acceleration, and every particle
\* already there is unchanged in every field.
C2_InsertAppendsOne ==
    [][frames' = frames =>
          /\ Len(charge_vec') = Len(charge_vec) + 1
          /\ charge_vec'[Len(charge_vec')].vel = Zero
          /\ charge_vec'[Len(charge_vec')].acc = Zero
          /\ SubSeq(charge_vec', 1, Len(charge_vec)) = charge_vec]_vars

\* A particle at a drawn position was appended behind particles that move
C2_Witness ==
    /\ frames > 0
    /\ Len(charge_vec) > Len(buffer)
    /\ charge_vec[Len(charge_vec)].pos \notin InitPos
    /\ charge_vec[Len(charge_vec)].vel = Zero
    /\ \E i \in 1..Len(buffer) : charge_vec[i].vel # Zero /\ charge_vec[i].acc # Zero

AxisLaw(self, other, ax) ==
    IF other.pos[ax] # self.pos[ax]
    THEN Quot(k * get_charge(self.particle) * get_charge(other.particle),
              Abs(other.pos[ax] - self.pos[ax]), self.mass)
    ELSE 0

\* C5: two distinguishable particles at rest: after the first step each one's
\* velocity on an axis is the axis law against the other, and its position
\* moves by exactly that, so not at all on an axis where they coincide.
C5_FromRest ==
    (frames = 1 /\ Len(buffer) = 2 /\ Distinct(buffer[1], buffer[2])) =>
        /\ pc = "loop"
        /\ \A i \in 1..2 : \A ax \in 1..3 :
               LET self == buffer[i]
                   other == buffer[3 - i]
               IN  /\ charge_vec[i].vel[ax] = AxisLaw(self, other, ax)
                   /\ charge_vec[i].pos[ax] = self.pos[ax] + AxisLaw(self, other, ax)
                   /\ other.pos[ax] = self.pos[ax] =>
                          charge_vec[i].pos[ax] = self.pos[ax]

\* The shipped pair after one step: the Electron has the velocity
\* k*(-q)*q/(100*em) on x, none on y and z, and has moved on x only
C5_Witness ==
    /\ frames = 1
    /\ buffer = initial_charge_vec
    /\ charge_vec[1].vel = vec3(Quot(k * (-q) * q, 100 * Scale, em), 0, 0)
    /\ charge_vec[1].vel[1] # 0
    /\ charge_vec[1].pos[1] # buffer[1].pos[1]
    /\ charge_vec[1].pos[2] = 0
    /\ charge_vec[1].pos[3] = 0

\* i has no other distinguishable particle in vec
Lone(vec, i) == \A j \in 1..Len(vec) : ~Distinct(vec[j], vec[i])

\* C6: when a step computes the net acceleration of a particle that has no
\* other distinguishable particle in the collection, the step ends in the
\* panic and that particle's acceleration, velocity and position are what
\* they were; a step that ends normally had no such particle.
C6_DegenerateFailsLoudly ==
    frames > 0 =>
        /\ (\E i \in 1..Len(buffer) : Lone(buffer, i)) <=> pc = "panicked"
        /\ \A i \in 1..Len(buffer) :
               Lone(buffer, i) => charge_vec[i] = buffer[i]

\* A step on a single particle has panicked
C6_Witness ==
    /\ pc = "panicked"
    /\ Len(buffer) = 1
    /\ frames = 1

\* C8: a completed step leaves, for every particle of its snapshot,
\* acc' = net acceleration of the pre-step state, vel' = vel + acc',
\* pos' = pos + vel', and kind, mass and trail as they were.
C8_UpdateOrder ==
    Stepped =>
        \A i \in 1..Len(buffer) :
            LET a == get_acc(buffer[i], buffer)
            IN  /\ a # None
                /\ charge_vec[i].acc = a[1]
                /\ charge_vec[i].vel = VAdd(buffer[i].vel, a[1])
                /\ charge_vec[i].pos = VAdd(buffer[i].pos, VAdd(buffer[i].vel, a[1]))
                /\ charge_vec[i].particle = buffer[i].particle
                /\ charge_vec[i].mass = buffer[i].mass
                /\ charge_vec[i].trail = buffer[i].trail

\* A particle that entered the step with velocity and acceleration, and left
\* it with a different acceleration
C8_Witness ==
    /\ Stepped
    /\ \E i \in 1..Len(buffer) :
           /\ buffer[i].vel # Zero
           /\ buffer[i].acc # Zero
           /\ charge_vec[i].acc # Zero
           /\ charge_vec[i].acc # buffer[i].acc
           /\ charge_vec[i].vel # charge_vec[i].acc

\* C10: a step that panics does so at the first particle processed, with
\* the collection exactly as the snapshot.
C10_PanicAllOrNothing ==
    pc = "panicked" => (at = 1 /\ charge_vec = buffer)

\* A step over two indistinguishable particles has panicked
C10_Witness ==
    /\ pc = "panicked"
    /\ Len(buffer) >= 2

\* C9: in the shipped program no step panics: in every reachable state every
\* particle has another one distinguishable from it, the first two keep the
\* kinds Electron and Proton.
C9_MainNeverPanics ==
    /\ pc # "panicked"
    /\ \A i \in 1..Len(charge_vec) : ~Lone(charge_vec, i)
    /\ Len(charge_vec) >= 2
    /\ charge_vec[1].particle = "Electron"
    /\ charge_vec[2].particle = "Proton"

\* Keys were pressed and the frame bound reached without a panic
C9_Witness ==
    /\ pc = "loop"
    /\ frames = MaxFrames
    /\ Len(charge_vec) = MainMaxCharges
    /\ \E i, j \in 3..Len(charge_vec) :
           i # j /\ charge_vec[i].particle = charge_vec[j].particle

\* Equality in kind, mass, position, velocity and acceleration
FiveEq(a, b) ==
    /\ a.particle = b.particle
    /\ a.mass = b.mass
    /\ a.pos = b.pos
    /\ a.vel = b.vel
    /\ a.acc = b.acc

====
